---- MODULE Spec2Model ----
(***************************************************************************)
(* Model of the BagiEngine meta-generator: the metadata cache              *)
(* (CI/meta_generator/core/cache.py), the renderer and factory resolver    *)
(* (core/generator.py), the choice of parser (core/parser.py,              *)
(* core/env_setup.py) and the command-line driver (meta_generator.py).     *)
(*                                                                         *)
(* The world is a set of header files on disk, the libclang library, the   *)
(* cache file metadata_cache.json, and one driver process that is either   *)
(* idle or at some step of main().  Between runs the environment edits     *)
(* headers, the cache file and the library; a run can be interrupted.      *)
(*                                                                         *)
(* Three further specifications take one part alone: SpecShortName the     *)
(* function compute_short_name, SpecResolver the cache and the factory     *)
(* resolver on arbitrary class lists, and SpecLauncher the pipeline        *)
(* executors of the launcher (CI/launcher/pipeline.py) with the worker     *)
(* thread and the cancel button of its window (CI/launcher/main_window.py).*)
(***************************************************************************)
EXTENDS Integers, Sequences, FiniteSets, TLC

VARIABLES
    disk,          \* header path -> what the file presents to open()
    libclang,      \* the native AST library as the machine offers it
    cacheFile,     \* content of <cache-dir>/metadata_cache.json
    files,         \* MetadataCache.files of the running driver (insertion-ordered dict)
    pc,            \* position of the driver in main()
    args,          \* command line of the current / last run
    cpp_parser,    \* main(): the parser create_parser returned
    todo,          \* files_to_process not yet visited (first loop)
    scanTodo,      \* scan_headers_list not yet visited (second loop)
    parsed,        \* header path -> number of parse_file calls in this run
    ingested,      \* header paths passed to update_file in this run
    generated,     \* header paths whose <stem>.gen.hpp was written in this run
    error_count,   \* main(): error_count
    factory_bases, \* families handed to generate_enum_factory in this run
    removed,       \* cache keys deleted by cleanup_deleted_files in this run
    last,          \* how the last run ended
    runs,          \* number of runs started, also the wall clock of the model
    clean,         \* the last run saved, no parse raised in it, nothing edited since
    repeat,        \* this run repeats a clean run with the same roots, no --force
    edits,         \* number of edits the environment has made
    seen,          \* header path -> what the file presented to its last saved update_file
    class_name,    \* compute_short_name: the argument class_name
    base_name,     \* compute_short_name: the argument base_name
    short_name,    \* compute_short_name: the value returned, "?" before the call
    pipeline,            \* launcher: Pipeline.steps, the action ids in order
    configurations,      \* launcher: the BuildConfiguration list handed to execute
    worker,              \* MainWindow.worker: "none", "single" or "multi"
    wpc,                 \* position of the worker thread
    window,              \* position of the GUI thread in _cancel_pipeline
    executor_cancelled,  \* MainWindow.executor._cancelled
    multi_cancelled,     \* MainWindow.multi_executor._cancelled
    inner_cancelled,     \* _cancelled of the executor created for one configuration
    step_index,          \* PipelineExecutor.execute: the loop index i
    results,             \* PipelineExecutor.execute: results
    result,              \* the PipelineResult execute returned last
    enabled_configs,     \* MultiConfigPipelineExecutor.execute: enabled_configs
    config_index,        \* MultiConfigPipelineExecutor.execute: the loop index i
    config_results,      \* MultiConfigPipelineExecutor.execute: results
    multi_result,        \* the MultiConfigPipelineResult returned
    steps_run,           \* every action executed: configuration, step index, success
    configs_run,         \* the configurations a pipeline run was begun for, in order
    cancel_returned,     \* cancel() calls returned: the first, a pair made inside execute()
    started_after        \* whether a step was started after those calls returned

shortNameVars == <<class_name, base_name, short_name>>

launcherVars == <<pipeline, configurations, worker, wpc, window, executor_cancelled,
                  multi_cancelled, inner_cancelled, step_index, results, result,
                  enabled_configs, config_index, config_results, multi_result, steps_run,
                  configs_run, cancel_returned, started_after>>

(* the state outside the driver process and its files *)
elsewhere == <<shortNameVars, launcherVars>>

vars == <<disk, libclang, cacheFile, files, pc, args, cpp_parser, todo, scanTodo, parsed,
          ingested, generated, error_count, factory_bases, removed, last, runs, clean,
          repeat, edits, seen, elsewhere>>

----------------------------------------------------------------------------
(* Bounds *)

MaxRuns == 2        \* driver runs in one behaviour
MaxContent == 2     \* distinct byte contents a header can take
MaxEdits == 1       \* edits of headers, cache file and library in one behaviour
MaxNameLen == 3     \* length of the class names handed to compute_short_name
MaxSteps == 3       \* steps of the launcher's pipeline
MaxConfigs == 3     \* build configurations handed to the multi-configuration executor

----------------------------------------------------------------------------
(* Program constants *)

CACHE_VERSION == "1.1"
OldVersion == "1.0"
EmptyHash == 0      \* get_file_hash's "" for a file that cannot be opened

----------------------------------------------------------------------------
(* The header files.  ISink.h and ConsoleSink.h lie under the --source-dir *)
(* root, FileSink.h under a separate --scan-dir root.                      *)

SourceHeaders == <<"ISink.h", "ConsoleSink.h">>
ScanHeaders == <<"FileSink.h">>
Files == {"ISink.h", "ConsoleSink.h", "FileSink.h"}

Range(s) == {s[i] : i \in 1..Len(s)}

Absent == [present |-> FALSE, readable |-> FALSE, content |-> 0]
Unreadable == [present |-> TRUE, readable |-> FALSE, content |-> 0]
Bytes(c) == [present |-> TRUE, readable |-> TRUE, content |-> c]
DiskStates == {Absent, Unreadable} \cup {Bytes(c) : c \in 1..MaxContent}

(* What a successful parse extracts from header f holding bytes c. *)
Class(n, ns, fb, par, f) ==
    [name |-> n, namespace |-> ns, full_qualified_name |-> <<ns, n>>,
     is_factory_base |-> fb, parent_class |-> par, source_file |-> f]

Reflected(f, c) ==
    CASE f = "ISink.h" ->
           IF c % 2 = 1
           THEN [classes |-> <<Class("ISink", "BECore", TRUE, "", f)>>,
                 enums |-> <<>>]
           ELSE [classes |-> <<Class("ISink", "BECore", TRUE, "", f),
                               Class("IFormatter", "BECore", TRUE, "", f)>>,
                 enums |-> <<>>]
      [] f = "ConsoleSink.h" ->
           IF c % 2 = 1
           THEN [classes |-> <<Class("ConsoleSink", "BECore", FALSE, "ISink", f)>>,
                 enums |-> <<>>]
           ELSE [classes |-> <<>>, enums |-> <<>>]
      [] OTHER ->
           IF c % 2 = 1
           THEN [classes |-> <<Class("FileSink", "BECore", FALSE, "ISink", f)>>,
                 enums |-> <<>>]
           ELSE [classes |-> <<Class("FileSink", "BECore", FALSE, "ISink", f)>>,
                 enums |-> <<"Mode">>]

----------------------------------------------------------------------------
(* core/cache.py *)

get_file_hash(f) ==
    IF disk[f].present /\ disk[f].readable THEN disk[f].content ELSE EmptyHash

Keys(fs) == {fs[i].path : i \in 1..Len(fs)}

Entry(fs, p) == fs[CHOOSE i \in 1..Len(fs) : fs[i].path = p]

(* variant: a path the cache does not know is reported unchanged *)
is_file_changed_known(fs, f) ==
    IF f \notin Keys(fs) THEN FALSE
    ELSE get_file_hash(f) # Entry(fs, f).content_hash

is_file_changed(fs, f) ==
    IF f \notin Keys(fs) THEN TRUE
    ELSE get_file_hash(f) # Entry(fs, f).content_hash

(* dict assignment: an existing key keeps its position, a new key goes last *)
DictSet(fs, m) ==
    IF m.path \in Keys(fs)
    THEN [i \in 1..Len(fs) |-> IF fs[i].path = m.path THEN m ELSE fs[i]]
    ELSE Append(fs, m)

(* variant: the entry is stored without computing the hash *)
update_file_nohash(fs, f, classes, enums, now) ==
    DictSet(fs, [path |-> f, content_hash |-> EmptyHash,
                 last_scanned |-> now, classes |-> classes, enums |-> enums])

(* variant: every entry is stamped with the time of the update *)
update_file_restamp(fs, f, classes, enums, now) ==
    LET upd == DictSet(fs, [path |-> f, content_hash |-> get_file_hash(f),
                            last_scanned |-> now, classes |-> classes,
                            enums |-> enums])
    IN [i \in 1..Len(upd) |-> [upd[i] EXCEPT !.last_scanned = now]]

update_file(fs, f, classes, enums, now) ==
    DictSet(fs, [path |-> f, content_hash |-> get_file_hash(f),
                 last_scanned |-> now, classes |-> classes, enums |-> enums])

(* core/models.py: FileMetadata.to_dict / from_dict.  A JSON value that    *)
(* stands where a file entry is expected is an object holding every        *)
(* required key, an object lacking one ("missing_field"), or no object at  *)
(* all ("not_object").                                                     *)
to_dict(m) ==
    [shape |-> "object", path |-> m.path, content_hash |-> m.content_hash,
     last_scanned |-> m.last_scanned, classes |-> m.classes, enums |-> m.enums]

from_dict(d) ==
    [path |-> d.path, content_hash |-> d.content_hash,
     last_scanned |-> d.last_scanned, classes |-> d.classes, enums |-> d.enums]

NoCacheFile ==
    [kind |-> "absent", version |-> "", filesIsObject |-> TRUE, entries |-> <<>>]

(* MetadataCache.save: the file written from the in-memory cache *)
save(fs) ==
    [kind |-> "object", version |-> CACHE_VERSION, filesIsObject |-> TRUE,
     entries |-> [i \in 1..Len(fs) |-> to_dict(fs[i])]]

(* variant: an entry that lacks a field is skipped, the others are kept *)
RECURSIVE LoadEntries_skip(_, _)
LoadEntries_skip(es, acc) ==
    IF es = <<>> THEN [files |-> acc, ret |-> TRUE, raised |-> FALSE]
    ELSE IF Head(es).shape = "not_object"
         THEN [files |-> acc, ret |-> FALSE, raised |-> TRUE]
    ELSE IF Head(es).shape = "missing_field"
         THEN LoadEntries_skip(Tail(es), acc)
    ELSE LoadEntries_skip(Tail(es), DictSet(acc, from_dict(Head(es))))

(* the for loop of load(): KeyError/TypeError are caught and empty the     *)
(* cache, an AttributeError is not caught                                  *)
RECURSIVE LoadEntries(_, _)
LoadEntries(es, acc) ==
    IF es = <<>> THEN [files |-> acc, ret |-> TRUE, raised |-> FALSE]
    ELSE IF Head(es).shape = "not_object"
         THEN [files |-> acc, ret |-> FALSE, raised |-> TRUE]
    ELSE IF Head(es).shape = "missing_field"
         THEN [files |-> <<>>, ret |-> FALSE, raised |-> FALSE]
    ELSE LoadEntries(Tail(es), DictSet(acc, from_dict(Head(es))))

(* variant: the version of the file is not compared *)
load_anyversion(cf) ==
    CASE cf.kind = "absent" -> [files |-> <<>>, ret |-> FALSE, raised |-> FALSE]
      [] cf.kind = "notjson" -> [files |-> <<>>, ret |-> FALSE, raised |-> FALSE]
      [] cf.kind = "notobject" -> [files |-> <<>>, ret |-> FALSE, raised |-> TRUE]
      [] OTHER ->
           IF ~cf.filesIsObject
           THEN [files |-> <<>>, ret |-> FALSE, raised |-> TRUE]
           ELSE LoadEntries(cf.entries, <<>>)

(* MetadataCache(cache_path).load(): the cache a fresh object holds after  *)
(* load(), its return value, and whether an exception left load()          *)
load(cf) ==
    CASE cf.kind = "absent" -> [files |-> <<>>, ret |-> FALSE, raised |-> FALSE]
      [] cf.kind = "notjson" -> [files |-> <<>>, ret |-> FALSE, raised |-> FALSE]
      [] cf.kind = "notobject" -> [files |-> <<>>, ret |-> FALSE, raised |-> TRUE]
      [] OTHER ->
           IF cf.version # CACHE_VERSION
           THEN [files |-> <<>>, ret |-> FALSE, raised |-> FALSE]
           ELSE IF ~cf.filesIsObject
           THEN [files |-> <<>>, ret |-> FALSE, raised |-> TRUE]
           ELSE LoadEntries(cf.entries, <<>>)

scan_headers(roots) == SelectSeq(roots, LAMBDA f : disk[f].present)

(* variant: the scan is not filtered by is_file_changed *)
get_outdated_files_all(fs, roots) == scan_headers(roots)

get_outdated_files(fs, roots) ==
    SelectSeq(scan_headers(roots), LAMBDA f : is_file_changed(fs, f))

(* variant: the membership test is inverted *)
cleanup_deleted_files_inverted(fs, existing) ==
    SelectSeq(fs, LAMBDA m : m.path \notin existing)

(* variant: nothing is removed *)
cleanup_deleted_files_keep(fs, existing) == fs

cleanup_deleted_files(fs, existing) ==
    SelectSeq(fs, LAMBDA m : m.path \in existing)

RECURSIVE get_all_classes(_)
get_all_classes(fs) ==
    IF fs = <<>> THEN <<>> ELSE Head(fs).classes \o get_all_classes(Tail(fs))

----------------------------------------------------------------------------
(* core/generator.py *)

(* Names are strings; s[-i:] and s[:-i] of the source are the suffix and   *)
(* the prefix below.                                                       *)
Min(a, b) == IF a < b THEN a ELSE b
Suffix(s, i) == SubSeq(s, Len(s) - i + 1, Len(s))
DropSuffix(s, i) == SubSeq(s, 1, Len(s) - i)
startswith(s, c) == Len(s) >= 1 /\ SubSeq(s, 1, 1) = c

(* the loop of lines 40-45, entered at iteration i with common_suffix = common *)
RECURSIVE common_suffix_from(_, _, _, _)
common_suffix_from(cls, base_suffix, i, common) ==
    IF i > Min(Len(cls), Len(base_suffix)) THEN common
    ELSE IF Suffix(cls, i) = Suffix(base_suffix, i)
         THEN common_suffix_from(cls, base_suffix, i + 1, Suffix(cls, i))
         ELSE common

(* variant: the leading I is cut off a base name of any length *)
compute_short_name_anylen(cls, base) ==
    LET base_suffix == IF startswith(base, "I")
                       THEN SubSeq(base, 2, Len(base)) ELSE base
        common_suffix == common_suffix_from(cls, base_suffix, 1, "")
        short == IF common_suffix # "" /\ Len(common_suffix) < Len(cls)
                 THEN DropSuffix(cls, Len(common_suffix)) ELSE cls
    IN IF short = "" THEN cls ELSE short

compute_short_name(cls, base) ==
    LET base_suffix == IF startswith(base, "I") /\ Len(base) > 1
                       THEN SubSeq(base, 2, Len(base)) ELSE base
        common_suffix == common_suffix_from(cls, base_suffix, 1, "")
        short == IF common_suffix # "" /\ Len(common_suffix) < Len(cls)
                 THEN DropSuffix(cls, Len(common_suffix)) ELSE cls
    IN IF short = "" THEN cls ELSE short

Derived(cls, base) ==
    [name |-> cls.name, short_name |-> compute_short_name(cls.name, base.name),
     full_name |-> cls.full_qualified_name, source_file |-> cls.source_file]

FactoryBaseData(base, all_classes) ==
    [name |-> base.name, full_qualified_name |-> base.full_qualified_name,
     namespace |-> base.namespace,
     derived |-> LET ds == SelectSeq(all_classes,
                                     LAMBDA c : c.parent_class = base.name)
                 IN [i \in 1..Len(ds) |-> Derived(ds[i], base)]]

(* variant: a base without derived classes gets a family as well *)
build_factory_bases_keepempty(all_classes) ==
    LET base_classes == SelectSeq(all_classes, LAMBDA c : c.is_factory_base)
    IN [i \in 1..Len(base_classes) |->
           FactoryBaseData(base_classes[i], all_classes)]

build_factory_bases(all_classes) ==
    LET base_classes == SelectSeq(all_classes, LAMBDA c : c.is_factory_base)
        fams == [i \in 1..Len(base_classes) |->
                    FactoryBaseData(base_classes[i], all_classes)]
    IN SelectSeq(fams, LAMBDA fb : fb.derived # <<>>)

----------------------------------------------------------------------------
(* core/parser.py: LibclangParser.parse_file.  When the translation unit   *)
(* cannot be built the regex fallback runs, and RegexParser.parse_file     *)
(* returns ([], []) for a file it cannot open.                             *)
parse_file(f) ==
    IF disk[f].present /\ disk[f].readable
    THEN Reflected(f, disk[f].content)
    ELSE [classes |-> <<>>, enums |-> <<>>]

HasEntities(m) == m.classes # <<>> \/ m.enums # <<>>

(* core/generator.py: CodeGenerator.generate_reflection(classes, enums,    *)
(* source_file).  It returns None when there is nothing to render, reads   *)
(* source_file.name and source_file.stem otherwise, which a Path has and a *)
(* str has not (AttributeError), and then writes <stem>.gen.hpp.           *)

generate_reflection(m, source_file) ==
    IF ~HasEntities(m) THEN "none"
    ELSE IF source_file = "str" THEN "raised"
    ELSE "written"

(* main() hands generate_reflection file_path.name, the str of the last    *)
(* path component                                                          *)
FilePathName == "str"

(* What can happen inside the try block of main() for one file: parse_file *)
(* raises (the AST walk of a file that could be opened), or it returns and *)
(* generate_reflection returns or raises.                                  *)
Outcomes(f) ==
    (IF disk[f].present /\ disk[f].readable THEN {"parse_raises"} ELSE {})
    \cup (IF generate_reflection(parse_file(f), FilePathName) = "raised"
          THEN {"render_raises"} ELSE {"ok"})

----------------------------------------------------------------------------
(* meta_generator.py: main() *)

(* core/parser.py: create_parser never raises: when libclang cannot be     *)
(* used (is_libclang_available() is false or LibclangParser() raises) it   *)
(* returns a RegexParser                                                   *)
create_parser(lib) == IF lib = "usable" THEN "libclang" ELSE "regex"

(* core/env_setup.py: initialize_clang reports found when the clang        *)
(* package is installed and discovery finds a directory holding a libclang *)
(* library file; it does not load the library.                             *)
initialize_clang(lib) == [found |-> lib # "missing"]

NoArgs == [force |-> FALSE, scan |-> FALSE]
NotClean == [ok |-> FALSE, scan |-> FALSE]
NoRun == [outcome |-> "none", code |-> 0]

source_dirs == SourceHeaders
scan_dirs(a) == IF a.scan THEN ScanHeaders ELSE source_dirs

(* launcher/pipeline.py: the result records *)
PipelineResult(success, steps_completed, total_steps, res) ==
    [success |-> success, steps_completed |-> steps_completed,
     total_steps |-> total_steps, results |-> res]

ConfigPipelineResult(config_name, pipeline_result) ==
    [config_name |-> config_name, pipeline_result |-> pipeline_result]

MultiConfigPipelineResult(success, configs_completed, total_configs, res) ==
    [success |-> success, configs_completed |-> configs_completed,
     total_configs |-> total_configs, results |-> res]

NoResult == [returned |-> FALSE]

(* launcher/main_window.py: the window has started no worker thread; both  *)
(* executors are as their constructors leave them                          *)
NoLauncherRun ==
    /\ worker = "none"
    /\ wpc = "none"
    /\ window = "idle"
    /\ executor_cancelled = FALSE
    /\ multi_cancelled = FALSE
    /\ inner_cancelled = FALSE
    /\ step_index = 0
    /\ results = <<>>
    /\ result = NoResult
    /\ enabled_configs = <<>>
    /\ config_index = 0
    /\ config_results = <<>>
    /\ multi_result = NoResult
    /\ steps_run = <<>>
    /\ configs_run = <<>>
    /\ cancel_returned = [first |-> FALSE, inside |-> FALSE, during |-> FALSE]
    /\ started_after = [first |-> FALSE, during |-> FALSE]

(* compute_short_name has not been called *)
NoShortNameCall ==
    /\ class_name = ""
    /\ base_name = ""
    /\ short_name = "?"

Init ==
    /\ disk \in [Files -> {Absent, Bytes(1)}]
    /\ libclang = "usable"
    /\ cacheFile = NoCacheFile
    /\ edits = 0
    /\ seen = [f \in Files |-> Absent]
    /\ files = <<>>
    /\ pc = "idle"
    /\ args = NoArgs
    /\ cpp_parser = "none"
    /\ todo = <<>>
    /\ scanTodo = <<>>
    /\ parsed = [f \in Files |-> 0]
    /\ ingested = {}
    /\ generated = {}
    /\ error_count = 0
    /\ factory_bases = <<>>
    /\ removed = {}
    /\ last = NoRun
    /\ runs = 0
    /\ clean = NotClean
    /\ repeat = FALSE
    /\ NoShortNameCall
    /\ pipeline = <<>>
    /\ configurations = <<>>
    /\ NoLauncherRun

(* lines 141-215: argument parsing, initialize_clang, cache.load(),        *)
(* create_parser, scan_headers and the choice of files_to_process.         *)
Begin(force, scan) ==
    /\ pc = "idle"
    /\ runs < MaxRuns
    /\ runs' = runs + 1
    /\ args' = [force |-> force, scan |-> scan]
    /\ parsed' = [f \in Files |-> 0]
    /\ ingested' = {}
    /\ generated' = {}
    /\ error_count' = 0
    /\ factory_bases' = <<>>
    /\ removed' = {}
    /\ scanTodo' = <<>>
    /\ UNCHANGED <<disk, libclang, cacheFile, edits, seen>>
    /\ IF ~initialize_clang(libclang).found
       THEN /\ last' = [outcome |-> "returned", code |-> 1]
            /\ pc' = "exit"
            /\ files' = <<>>
            /\ todo' = <<>>
            /\ cpp_parser' = "none"
            /\ clean' = NotClean
            /\ repeat' = FALSE
       ELSE LET l == load(cacheFile) IN
            IF l.raised
            THEN /\ last' = [outcome |-> "crashed", code |-> 1]
                 /\ pc' = "exit"
                 /\ files' = <<>>
                 /\ todo' = <<>>
                 /\ cpp_parser' = "none"
                 /\ clean' = NotClean
                 /\ repeat' = FALSE
            ELSE /\ last' = NoRun
                 /\ pc' = "parse"
                 /\ files' = l.files
                 /\ cpp_parser' = create_parser(libclang)
                 /\ todo' = IF force THEN scan_headers(source_dirs)
                            ELSE get_outdated_files(l.files, source_dirs)
                 /\ repeat' = (clean.ok /\ clean.scan = scan /\ ~force)
                 /\ clean' = NotClean
    /\ UNCHANGED elsewhere

(* the body of the try block, lines 226-239 and 260-270 *)
Process(f, out) ==
    LET m == parse_file(f) IN
    /\ parsed' = [parsed EXCEPT ![f] = @ + 1]
    /\ IF out = "parse_raises"
       THEN /\ error_count' = error_count + 1
            /\ UNCHANGED <<files, ingested, generated>>
       ELSE /\ files' = update_file(files, f, m.classes, m.enums, runs)
            /\ ingested' = ingested \cup {f}
            /\ LET r == generate_reflection(m, FilePathName) IN
               CASE r = "raised" -> /\ error_count' = error_count + 1
                                    /\ UNCHANGED generated
                 [] r = "written" -> /\ generated' = generated \cup {f}
                                     /\ UNCHANGED error_count
                 [] OTHER -> UNCHANGED <<generated, error_count>>

(* variant: the cache file is written after every file *)
ParseStep_autosave ==
    /\ pc = "parse"
    /\ todo # <<>>
    /\ \E out \in Outcomes(Head(todo)) : Process(Head(todo), out)
    /\ todo' = Tail(todo)
    /\ cacheFile' = save(files')
    /\ UNCHANGED <<disk, libclang, pc, args, cpp_parser, scanTodo,
                   factory_bases, removed, last, runs, clean, repeat, edits,
                   seen>>
    /\ UNCHANGED elsewhere

(* one iteration of the loop of lines 222-248 *)
ParseStep ==
    /\ pc = "parse"
    /\ todo # <<>>
    /\ \E out \in Outcomes(Head(todo)) : Process(Head(todo), out)
    /\ todo' = Tail(todo)
    /\ UNCHANGED <<disk, libclang, cacheFile, pc, args, cpp_parser, scanTodo,
                   factory_bases, removed, last, runs, clean, repeat, edits,
                   seen>>
    /\ UNCHANGED elsewhere

(* lines 252-254 *)
ScanBegin ==
    /\ pc = "parse"
    /\ todo = <<>>
    /\ scanTodo' = scan_headers(scan_dirs(args))
    /\ pc' = "scan"
    /\ UNCHANGED <<disk, libclang, cacheFile, files, args, cpp_parser, todo, parsed,
                   ingested, generated, error_count, factory_bases, removed,
                   last, runs, clean, repeat, edits, seen>>
    /\ UNCHANGED elsewhere

(* one iteration of the loop of lines 256-274 *)
ScanStep ==
    /\ pc = "scan"
    /\ scanTodo # <<>>
    /\ IF Head(scanTodo) \notin Keys(files)
       THEN \E out \in Outcomes(Head(scanTodo)) : Process(Head(scanTodo), out)
       ELSE UNCHANGED <<files, parsed, ingested, generated, error_count>>
    /\ scanTodo' = Tail(scanTodo)
    /\ UNCHANGED <<disk, libclang, cacheFile, pc, args, cpp_parser, todo, factory_bases,
                   removed, last, runs, clean, repeat, edits, seen>>
    /\ UNCHANGED elsewhere

(* variant: the resolver takes the classes out of the cache entries *)
ResolveStep_draining ==
    /\ pc = "scan"
    /\ scanTodo = <<>>
    /\ factory_bases' = build_factory_bases(get_all_classes(files))
    /\ files' = [i \in 1..Len(files) |-> [files[i] EXCEPT !.classes = <<>>]]
    /\ pc' = "prune"
    /\ UNCHANGED <<disk, libclang, cacheFile, args, cpp_parser, todo, scanTodo,
                   parsed, ingested, generated, error_count, removed, last,
                   runs, clean, repeat, edits, seen>>
    /\ UNCHANGED elsewhere

(* lines 277-284: resolve the families and render one header for each *)
ResolveStep ==
    /\ pc = "scan"
    /\ scanTodo = <<>>
    /\ factory_bases' = build_factory_bases(get_all_classes(files))
    /\ pc' = "prune"
    /\ UNCHANGED <<disk, libclang, cacheFile, files, args, cpp_parser, todo,
                   scanTodo, parsed, ingested, generated, error_count, removed,
                   last, runs, clean, repeat, edits, seen>>
    /\ UNCHANGED elsewhere

(* lines 287-290 *)
PruneStep ==
    /\ pc = "prune"
    /\ LET existing_files == Range(scan_headers(source_dirs \o scan_dirs(args)))
       IN /\ files' = cleanup_deleted_files(files, existing_files)
          /\ removed' = Keys(files) \ existing_files
    /\ pc' = "save"
    /\ UNCHANGED <<disk, libclang, cacheFile, args, cpp_parser, todo, scanTodo, parsed,
                   ingested, generated, error_count, factory_bases, last, runs,
                   clean, repeat, edits, seen>>
    /\ UNCHANGED elsewhere

(* lines 293-304 *)
SaveStep ==
    /\ pc = "save"
    /\ cacheFile' = save(files)
    /\ last' = [outcome |-> "returned",
                code |-> IF error_count = 0 THEN 0 ELSE 1]
    /\ LET all_ingested == \A f \in Files : parsed[f] > 0 => f \in ingested
       IN clean' = [ok |-> all_ingested, scan |-> all_ingested /\ args.scan]
    /\ seen' = [f \in Files |-> IF f \in ingested THEN disk[f] ELSE seen[f]]
    /\ pc' = "exit"
    /\ UNCHANGED <<disk, libclang, files, args, cpp_parser, todo, scanTodo, parsed,
                   ingested, generated, error_count, factory_bases, removed,
                   runs, repeat, edits>>
    /\ UNCHANGED elsewhere

(* what the end of the process does to its own state *)
ProcessGone ==
    /\ pc' = "idle"
    /\ files' = <<>>
    /\ args' = NoArgs
    /\ cpp_parser' = "none"
    /\ todo' = <<>>
    /\ scanTodo' = <<>>
    /\ parsed' = [f \in Files |-> 0]
    /\ ingested' = {}
    /\ generated' = {}
    /\ error_count' = 0
    /\ factory_bases' = <<>>
    /\ removed' = {}
    /\ repeat' = FALSE

(* The run ends between two steps of main(): KeyboardInterrupt and         *)
(* SystemExit are no Exception and pass the except clauses of both loops,  *)
(* and scan_headers, generate_enum_factory and cleanup_deleted_files are   *)
(* called outside any try block.                                           *)
Interrupt ==
    /\ pc \in {"parse", "scan", "prune", "save"}
    /\ ProcessGone
    /\ last' = [outcome |-> "interrupted", code |-> 1]
    /\ clean' = NotClean
    /\ UNCHANGED <<disk, libclang, cacheFile, runs, edits, seen>>
    /\ UNCHANGED elsewhere

(* the process is gone: only the disk and the exit status remain *)
Exit ==
    /\ pc = "exit"
    /\ ProcessGone
    /\ UNCHANGED <<disk, libclang, cacheFile, last, runs, clean, edits, seen>>
    /\ UNCHANGED elsewhere

----------------------------------------------------------------------------
(* The environment, between runs *)

EnvFrame ==
    /\ clean' = NotClean
    /\ edits < MaxEdits
    /\ edits' = edits + 1
    /\ UNCHANGED <<files, pc, args, cpp_parser, todo, scanTodo, parsed, ingested,
                   generated, error_count, factory_bases, removed, last, runs,
                   repeat, seen>>
    /\ UNCHANGED elsewhere

EditHeader ==
    /\ pc = "idle"
    /\ \E f \in Files : \E d \in DiskStates :
          /\ d # disk[f]
          /\ disk' = [disk EXCEPT ![f] = d]
    /\ UNCHANGED <<cacheFile, libclang>>
    /\ EnvFrame

Damaged(cf, i, shape) ==
    [cf EXCEPT !.entries = [cf.entries EXCEPT ![i] = [@ EXCEPT !.shape = shape]]]

EditCacheFile ==
    /\ pc = "idle"
    /\ \/ /\ cacheFile.kind # "absent"
          /\ cacheFile' = NoCacheFile
       \/ /\ cacheFile.kind = "object"
          /\ \/ cacheFile' = [NoCacheFile EXCEPT !.kind = "notjson"]
             \/ cacheFile' = [NoCacheFile EXCEPT !.kind = "notobject"]
             \/ /\ cacheFile.version = CACHE_VERSION
                /\ cacheFile' = [cacheFile EXCEPT !.version = OldVersion]
             \/ /\ cacheFile.filesIsObject
                /\ cacheFile' = [cacheFile EXCEPT !.filesIsObject = FALSE,
                                                  !.entries = <<>>]
             \/ \E i \in 1..Len(cacheFile.entries) :
                \E shape \in {"missing_field", "not_object"} :
                   /\ cacheFile.entries[i].shape = "object"
                   /\ cacheFile' = Damaged(cacheFile, i, shape)
    /\ UNCHANGED <<disk, libclang>>
    /\ EnvFrame

(* the library file is removed, replaced by one that cannot be loaded, or  *)
(* installed                                                               *)
EditToolchain ==
    /\ pc = "idle"
    /\ \E lib \in {"missing", "unusable", "usable"} :
          /\ lib # libclang
          /\ libclang' = lib
    /\ UNCHANGED <<disk, cacheFile>>
    /\ EnvFrame

Next ==
    \/ \E force \in BOOLEAN, scan \in BOOLEAN : Begin(force, scan)
    \/ ParseStep
    \/ ScanBegin
    \/ ScanStep
    \/ ResolveStep
    \/ PruneStep
    \/ SaveStep
    \/ Interrupt
    \/ Exit
    \/ EditHeader
    \/ EditCacheFile
    \/ EditToolchain

Spec == Init /\ [][Next]_vars

TypeOK ==
    /\ disk \in [Files -> DiskStates]
    /\ pc \in {"idle", "parse", "scan", "prune", "save", "exit"}
    /\ Keys(files) \subseteq Files
    /\ Len(files) = Cardinality(Keys(files))
    /\ runs \in 0..MaxRuns
    /\ cpp_parser \in {"none", "libclang", "regex"}
    /\ libclang \in {"missing", "unusable", "usable"}

----------------------------------------------------------------------------
(* compute_short_name taken alone: it is called once, on a derived class   *)
(* name and a base class name drawn from the identifiers over Alphabet.    *)

Alphabet == {"I", "S", "k"}

RECURSIVE NamesOfLen(_)
NamesOfLen(n) ==
    IF n = 0 THEN {""} ELSE {s \o c : s \in NamesOfLen(n - 1), c \in Alphabet}

Names == UNION {NamesOfLen(n) : n \in 1..MaxNameLen}

(* a driver process at position p of main(), before it has touched a file; *)
(* every header is a readable file                                         *)
DriverAt(p) ==
    /\ disk = [f \in Files |-> Bytes(1)]
    /\ libclang = "usable"
    /\ cacheFile = NoCacheFile
    /\ edits = 0
    /\ seen = [f \in Files |-> Absent]
    /\ files = <<>>
    /\ pc = p
    /\ args = NoArgs
    /\ cpp_parser = IF p = "idle" THEN "none" ELSE "libclang"
    /\ todo = <<>>
    /\ scanTodo = <<>>
    /\ parsed = [f \in Files |-> 0]
    /\ ingested = {}
    /\ generated = {}
    /\ error_count = 0
    /\ factory_bases = <<>>
    /\ removed = {}
    /\ last = NoRun
    /\ runs = IF p = "idle" THEN 0 ELSE 1
    /\ clean = NotClean
    /\ repeat = FALSE

(* no driver process *)
DriverAtRest == DriverAt("idle")

driverVars == <<disk, libclang, cacheFile, files, pc, args, cpp_parser, todo, scanTodo,
                parsed, ingested, generated, error_count, factory_bases, removed, last,
                runs, clean, repeat, edits, seen>>

InitShortName ==
    /\ DriverAtRest
    /\ pipeline = <<>>
    /\ configurations = <<>>
    /\ NoLauncherRun
    /\ class_name \in Names
    /\ base_name \in Names
    /\ short_name = "?"

CallShortName ==
    /\ short_name = "?"
    /\ short_name' = compute_short_name(class_name, base_name)
    /\ UNCHANGED <<driverVars, class_name, base_name, launcherVars>>

NextShortName == CallShortName

SpecShortName == InitShortName /\ [][NextShortName]_vars

----------------------------------------------------------------------------
(* The cache and the resolver taken alone: update_file is called on the    *)
(* headers in any order and with any of the class lists below, as the two  *)
(* loops of main() do over the runs that fill a cache, and then            *)
(* build_factory_bases runs on cache.get_all_classes().                    *)

(* the reflected classes a header can declare: the factory base ISink and  *)
(* three classes derived from ISink, each in one of two namespaces         *)
Declarable(f) ==
    {Class("ISink", ns, TRUE, "", f) : ns \in {"Log", "Net"}}
    \cup {Class(n, ns, FALSE, "ISink", f) :
             n \in {"ConsoleSink", "Console", "FileSink"}, ns \in {"Log", "Net"}}

(* what parse_file can return for header f: no class or one class *)
Extractions(f) == {<<>>} \cup {<<c>> : c \in Declarable(f)}

InitResolver ==
    /\ DriverAt("scan")
    /\ NoShortNameCall
    /\ pipeline = <<>>
    /\ configurations = <<>>
    /\ NoLauncherRun

(* cache.update_file(file_path, classes, enums), lines 229 and 262 *)
UpdateFile ==
    /\ pc = "scan"
    /\ \E f \in Files : \E classes \in Extractions(f) :
          files' = update_file(files, f, classes, <<>>, runs)
    /\ UNCHANGED <<disk, libclang, cacheFile, pc, args, cpp_parser, todo, scanTodo,
                   parsed, ingested, generated, error_count, factory_bases,
                   removed, last, runs, clean, repeat, edits, seen>>
    /\ UNCHANGED elsewhere

NextResolver ==
    \/ UpdateFile
    \/ ResolveStep

SpecResolver == InitResolver /\ [][NextResolver]_vars

----------------------------------------------------------------------------
(* The launcher, launcher/pipeline.py and launcher/main_window.py: the     *)
(* window starts one worker thread, which runs PipelineExecutor.execute or *)
(* MultiConfigPipelineExecutor.execute, and the GUI thread may run         *)
(* _cancel_pipeline at any moment from then on.  An action (a build tool   *)
(* run by ActionExecutor.execute) ends with success or without.            *)

(* the pipelines and configuration lists execute is called with; a         *)
(* configuration is named by its place in the list                         *)
Pipelines == {[k \in 1..n |-> k] : n \in 1..MaxSteps}

ConfigurationLists ==
    UNION {{[k \in 1..n |-> [name |-> k, enabled |-> en[k]]] : en \in [1..n -> BOOLEAN]}
           : n \in 0..MaxConfigs}

InitLauncher ==
    /\ DriverAtRest
    /\ NoShortNameCall
    /\ pipeline \in Pipelines
    /\ configurations \in ConfigurationLists
    /\ NoLauncherRun

(* the executor whose execute() the worker thread is in *)
Cancelled == IF worker = "single" THEN executor_cancelled ELSE inner_cancelled

(* the configuration of the pipeline run in progress, 0 for a single run *)
CurrentConfig == IF worker = "single" THEN 0 ELSE enabled_configs[config_index + 1]

(* MainWindow._execute_pipeline, lines 929-960 *)
execute_pipeline ==
    /\ worker = "none"
    /\ worker' = "single"
    /\ wpc' = "started"
    /\ UNCHANGED <<pipeline, configurations, window, executor_cancelled,
                   multi_cancelled, inner_cancelled, step_index, results, result,
                   enabled_configs, config_index, config_results, multi_result,
                   steps_run, configs_run, cancel_returned, started_after>>
    /\ UNCHANGED <<driverVars, shortNameVars>>

(* MainWindow._execute_multi_config_pipeline, lines 962-991 *)
execute_multi_config_pipeline ==
    /\ worker = "none"
    /\ worker' = "multi"
    /\ wpc' = "mstarted"
    /\ UNCHANGED <<pipeline, configurations, window, executor_cancelled,
                   multi_cancelled, inner_cancelled, step_index, results, result,
                   enabled_configs, config_index, config_results, multi_result,
                   steps_run, configs_run, cancel_returned, started_after>>
    /\ UNCHANGED <<driverVars, shortNameVars>>

(* PipelineExecutor.execute, lines 87-88 *)
ExecuteEnter ==
    /\ wpc = "started"
    /\ IF worker = "single"
       THEN executor_cancelled' = FALSE /\ UNCHANGED inner_cancelled
       ELSE inner_cancelled' = FALSE /\ UNCHANGED executor_cancelled
    /\ results' = <<>>
    /\ step_index' = 0
    /\ wpc' = "check"
    /\ UNCHANGED <<pipeline, configurations, worker, window, multi_cancelled, result,
                   enabled_configs, config_index, config_results, multi_result,
                   steps_run, configs_run, cancel_returned, started_after>>
    /\ UNCHANGED <<driverVars, shortNameVars>>

(* execute returns r: to PipelineWorker.run, or to the loop of             *)
(* MultiConfigPipelineExecutor.execute, lines 242-258                      *)
Return(r) ==
    /\ result' = r
    /\ IF worker = "single"
       THEN /\ wpc' = "returned"
            /\ UNCHANGED <<config_results, config_index>>
       ELSE /\ config_results' =
                   Append(config_results, ConfigPipelineResult(CurrentConfig, r))
            /\ config_index' = config_index + 1
            /\ wpc' = "mcheck"

(* lines 90-97: the loop finds _cancelled set *)
ExecuteCancelled ==
    /\ wpc = "check"
    /\ step_index < Len(pipeline)
    /\ Cancelled
    /\ Return(PipelineResult(FALSE, step_index, Len(pipeline), results))
    /\ UNCHANGED <<pipeline, configurations, worker, window, executor_cancelled,
                   multi_cancelled, inner_cancelled, step_index, results,
                   enabled_configs, multi_result, steps_run, configs_run,
                   cancel_returned, started_after>>
    /\ UNCHANGED <<driverVars, shortNameVars>>

(* lines 99-112: on_step_start and the call of action_executor.execute *)
StepStart ==
    /\ wpc = "check"
    /\ step_index < Len(pipeline)
    /\ ~Cancelled
    /\ wpc' = "action"
    /\ started_after' = [first |-> started_after.first \/ cancel_returned.first,
                         during |-> started_after.during \/ cancel_returned.during]
    /\ UNCHANGED <<pipeline, configurations, worker, window, executor_cancelled,
                   multi_cancelled, inner_cancelled, step_index, results, result,
                   enabled_configs, config_index, config_results, multi_result,
                   steps_run, configs_run, cancel_returned>>
    /\ UNCHANGED <<driverVars, shortNameVars>>

(* variant: a failed step does not end the loop *)
StepComplete_continue(ok) ==
    /\ wpc = "action"
    /\ results' = Append(results, ok)
    /\ steps_run' = Append(steps_run, [config |-> CurrentConfig,
                                       step |-> step_index, success |-> ok])
    /\ step_index' = step_index + 1
    /\ wpc' = "check"
    /\ UNCHANGED <<result, config_results, config_index>>
    /\ UNCHANGED <<pipeline, configurations, worker, window, executor_cancelled,
                   multi_cancelled, inner_cancelled, enabled_configs, multi_result,
                   configs_run, cancel_returned, started_after>>
    /\ UNCHANGED <<driverVars, shortNameVars>>

(* lines 112-129: the action returns its ActionResult *)
StepComplete(ok) ==
    /\ wpc = "action"
    /\ results' = Append(results, ok)
    /\ steps_run' = Append(steps_run, [config |-> CurrentConfig,
                                       step |-> step_index, success |-> ok])
    /\ IF ~ok
       THEN /\ Return(PipelineResult(FALSE, step_index, Len(pipeline), results'))
            /\ UNCHANGED step_index
       ELSE /\ step_index' = step_index + 1
            /\ wpc' = "check"
            /\ UNCHANGED <<result, config_results, config_index>>
    /\ UNCHANGED <<pipeline, configurations, worker, window, executor_cancelled,
                   multi_cancelled, inner_cancelled, enabled_configs, multi_result,
                   configs_run, cancel_returned, started_after>>
    /\ UNCHANGED <<driverVars, shortNameVars>>

(* lines 131-136: the loop is exhausted *)
ExecuteFinish ==
    /\ wpc = "check"
    /\ step_index = Len(pipeline)
    /\ Return(PipelineResult(TRUE, Len(pipeline), Len(pipeline), results))
    /\ UNCHANGED <<pipeline, configurations, worker, window, executor_cancelled,
                   multi_cancelled, inner_cancelled, step_index, results,
                   enabled_configs, multi_result, steps_run, configs_run,
                   cancel_returned, started_after>>
    /\ UNCHANGED <<driverVars, shortNameVars>>

Enabled(cs) ==
    LET en == SelectSeq(cs, LAMBDA c : c.enabled)
    IN [k \in 1..Len(en) |-> en[k].name]

(* variant: every configuration is run, enabled or not *)
MultiExecuteEnter_all ==
    /\ wpc = "mstarted"
    /\ multi_cancelled' = FALSE
    /\ config_results' = <<>>
    /\ enabled_configs' = [k \in 1..Len(configurations) |-> configurations[k].name]
    /\ config_index' = 0
    /\ IF enabled_configs' = <<>>
       THEN /\ multi_result' = MultiConfigPipelineResult(FALSE, 0, 0, <<>>)
            /\ wpc' = "mreturned"
       ELSE /\ wpc' = "mcheck"
            /\ UNCHANGED multi_result
    /\ UNCHANGED <<pipeline, configurations, worker, window, executor_cancelled,
                   inner_cancelled, step_index, results, result, steps_run,
                   configs_run, cancel_returned, started_after>>
    /\ UNCHANGED <<driverVars, shortNameVars>>

(* MultiConfigPipelineExecutor.execute, lines 203-215 *)
MultiExecuteEnter ==
    /\ wpc = "mstarted"
    /\ multi_cancelled' = FALSE
    /\ config_results' = <<>>
    /\ enabled_configs' = Enabled(configurations)
    /\ config_index' = 0
    /\ IF enabled_configs' = <<>>
       THEN /\ multi_result' = MultiConfigPipelineResult(FALSE, 0, 0, <<>>)
            /\ wpc' = "mreturned"
       ELSE /\ wpc' = "mcheck"
            /\ UNCHANGED multi_result
    /\ UNCHANGED <<pipeline, configurations, worker, window, executor_cancelled,
                   inner_cancelled, step_index, results, result, steps_run,
                   configs_run, cancel_returned, started_after>>
    /\ UNCHANGED <<driverVars, shortNameVars>>

(* lines 217-224: the loop finds _cancelled set *)
MultiExecuteCancelled ==
    /\ wpc = "mcheck"
    /\ config_index < Len(enabled_configs)
    /\ multi_cancelled
    /\ multi_result' = MultiConfigPipelineResult(FALSE, config_index,
                                                 Len(enabled_configs), config_results)
    /\ wpc' = "mreturned"
    /\ UNCHANGED <<pipeline, configurations, worker, window, executor_cancelled,
                   multi_cancelled, inner_cancelled, step_index, results, result,
                   enabled_configs, config_index, config_results, steps_run,
                   configs_run, cancel_returned, started_after>>
    /\ UNCHANGED <<driverVars, shortNameVars>>

(* lines 226-251: on_config_start, PipelineExecutor(self.project_root) and *)
(* the call of its execute                                                 *)
ConfigStart ==
    /\ wpc = "mcheck"
    /\ config_index < Len(enabled_configs)
    /\ ~multi_cancelled
    /\ inner_cancelled' = FALSE
    /\ configs_run' = Append(configs_run, CurrentConfig)
    /\ wpc' = "started"
    /\ UNCHANGED <<pipeline, configurations, worker, window, executor_cancelled,
                   multi_cancelled, step_index, results, result, enabled_configs,
                   config_index, config_results, multi_result, steps_run,
                   cancel_returned, started_after>>
    /\ UNCHANGED <<driverVars, shortNameVars>>

(* lines 266-273: the loop is exhausted *)
MultiExecuteFinish ==
    /\ wpc = "mcheck"
    /\ config_index = Len(enabled_configs)
    /\ LET all_success == \A k \in 1..Len(config_results) :
                              config_results[k].pipeline_result.success
       IN multi_result' = MultiConfigPipelineResult(all_success, Len(config_results),
                                                    Len(enabled_configs), config_results)
    /\ wpc' = "mreturned"
    /\ UNCHANGED <<pipeline, configurations, worker, window, executor_cancelled,
                   multi_cancelled, inner_cancelled, step_index, results, result,
                   enabled_configs, config_index, config_results, steps_run,
                   configs_run, cancel_returned, started_after>>
    /\ UNCHANGED <<driverVars, shortNameVars>>

(* the worker thread is inside execute(), past the reset of _cancelled *)
InsideExecute == wpc \in {"check", "action", "mcheck"} \/ (worker = "multi" /\ wpc = "started")

(* MainWindow._cancel_pipeline, lines 1029-1030: self.executor.cancel() *)
CancelExecutor ==
    /\ worker # "none"
    /\ window = "idle"
    /\ executor_cancelled' = TRUE
    /\ window' = "cancelling"
    /\ cancel_returned' = [cancel_returned EXCEPT !.first = TRUE,
                                                  !.inside = InsideExecute]
    /\ UNCHANGED <<pipeline, configurations, worker, wpc, multi_cancelled,
                   inner_cancelled, step_index, results, result, enabled_configs,
                   config_index, config_results, multi_result, steps_run,
                   configs_run, started_after>>
    /\ UNCHANGED <<driverVars, shortNameVars>>

(* line 1031: self.multi_executor.cancel() *)
CancelMultiExecutor ==
    /\ window = "cancelling"
    /\ multi_cancelled' = TRUE
    /\ window' = "idle"
    /\ cancel_returned' =
          [cancel_returned EXCEPT
              !.during = @ \/ (cancel_returned.inside /\ InsideExecute)]
    /\ UNCHANGED <<pipeline, configurations, worker, wpc, executor_cancelled,
                   inner_cancelled, step_index, results, result, enabled_configs,
                   config_index, config_results, multi_result, steps_run,
                   configs_run, started_after>>
    /\ UNCHANGED <<driverVars, shortNameVars>>

NextLauncher ==
    \/ execute_pipeline
    \/ execute_multi_config_pipeline
    \/ ExecuteEnter
    \/ ExecuteCancelled
    \/ StepStart
    \/ \E ok \in BOOLEAN : StepComplete(ok)
    \/ ExecuteFinish
    \/ MultiExecuteEnter
    \/ MultiExecuteCancelled
    \/ ConfigStart
    \/ MultiExecuteFinish
    \/ CancelExecutor
    \/ CancelMultiExecutor

SpecLauncher == InitLauncher /\ [][NextLauncher]_vars

----------------------------------------------------------------------------
(* Vocabulary of the properties *)

Running == pc \in {"parse", "scan", "prune", "save"}

(* the cache as load() delivered it to the current run: the cache file is  *)
(* not written before SaveStep                                             *)
StartCache == load(cacheFile).files

HasEntry(fs, f) == \E i \in 1..Len(fs) : fs[i].path = f

StoredHash(fs, f) == {fs[i].content_hash : i \in {j \in 1..Len(fs) : fs[j].path = f}}

(* "new, or the content hash differs from the cached hash" *)
Outdated(fs, f) == ~HasEntry(fs, f) \/ StoredHash(fs, f) # {get_file_hash(f)}

Discovered(roots) == {f \in Range(roots) : disk[f].present}

ParsedFiles == {f \in Files : parsed[f] > 0}

----------------------------------------------------------------------------
(* C1: for every header f that exists, once update_file(f) has been        *)
(* followed by save() and the file has been loaded into a fresh cache,     *)
(* is_file_changed(f) is false while f presents the bytes it presented to  *)
(* update_file and true once it presents anything else (a file that cannot *)
(* be opened presents no bytes).                                           *)
C1_OutdatedDetection ==
    \A f \in Files :
        LET l == load(cacheFile) IN
        (~Running /\ ~l.raised /\ HasEntry(l.files, f) /\ disk[f].present)
            => (is_file_changed(l.files, f) <=> disk[f] # seen[f])

C1_Witness ==
    /\ pc = "parse"
    /\ \E f \in Files : /\ HasEntry(files, f) /\ disk[f].present
                        /\ disk[f] # seen[f] /\ is_file_changed(files, f)
    /\ \E g \in Files : /\ HasEntry(files, g) /\ disk[g].present
                        /\ disk[g] = seen[g] /\ ~is_file_changed(files, g)

(* C2: is_file_changed(path) is true iff the cache has no entry for the    *)
(* path or the stored content_hash differs from the file's current hash:   *)
(* the changed files get_outdated_files hands to the driver are the        *)
(* discovered source headers of which this is true.                        *)
C2_IsFileChangedIff ==
    [][(pc = "idle" /\ pc' = "parse" /\ ~args'.force)
          => \A f \in Discovered(source_dirs) :
                f \in Range(todo') <=>
                   (~HasEntry(files', f) \/ StoredHash(files', f) # {get_file_hash(f)})]_vars

C2_Witness ==
    /\ pc = "parse" /\ ~args.force /\ ParsedFiles = {}
    /\ \E f \in Range(todo) : HasEntry(files, f)
    /\ \E g \in Discovered(source_dirs) : g \notin Range(todo)

(* C3: in a run without --force the source headers the driver parses are   *)
(* exactly the discovered ones that are new or whose hash differs from the *)
(* cached hash; when exactly one header is outdated and it, like every     *)
(* other discovered header, was cached before, that file alone is parsed,  *)
(* once, and when its parse returns its cached hash is the hash of the new *)
(* content (when it raises, the run counts the error).                     *)
OutdatedSources == {f \in Discovered(source_dirs) : Outdated(StartCache, f)}

AllCached ==
    \A g \in Discovered(source_dirs \o scan_dirs(args)) : HasEntry(StartCache, g)

C3_ParsesExactlyOutdated ==
    (pc \in {"prune", "save"} /\ ~args.force) =>
        /\ ParsedFiles \cap Range(source_dirs) = OutdatedSources
        /\ \A f \in OutdatedSources :
              (OutdatedSources = {f} /\ AllCached) =>
                  /\ ParsedFiles = {f}
                  /\ parsed[f] = 1
                  /\ IF f \in ingested
                     THEN StoredHash(files, f) = {get_file_hash(f)}
                     ELSE error_count = 1

C3_Witness ==
    /\ pc = "save" /\ ~args.force
    /\ Cardinality(Discovered(source_dirs)) = 2
    /\ AllCached
    /\ \E f \in Files : /\ OutdatedSources = {f}
                        /\ f \in ingested
                        /\ StoredHash(StartCache, f) # StoredHash(files, f)
                        /\ StoredHash(files, f) = {get_file_hash(f)}

(* C4: a run that follows a run which reached save() and ingested every    *)
(* header it parsed, with the same roots, no --force and nothing edited in *)
(* between, parses no file, still renders the factory header of every      *)
(* non-empty family and, run to its end, returns 0.                        *)
EveryFamilyRendered ==
    LET cls == get_all_classes(files) IN
    \A i \in 1..Len(cls) :
        (cls[i].is_factory_base
            /\ \E j \in 1..Len(cls) : cls[j].parent_class = cls[i].name)
        => \E k \in 1..Len(factory_bases) :
              /\ factory_bases[k].full_qualified_name = cls[i].full_qualified_name
              /\ factory_bases[k].derived # <<>>

C4_BackToBack ==
    repeat =>
        /\ ParsedFiles = {}
        /\ pc \in {"prune", "save", "exit"} => EveryFamilyRendered
        /\ pc = "exit" => last = [outcome |-> "returned", code |-> 0]

C4_Witness ==
    /\ pc = "exit" /\ repeat
    /\ factory_bases # <<>>
    /\ Len(files) >= 2
    /\ last.code = 0

(* C5: when a cached header that declares a derived class of a factory     *)
(* base has been deleted, the run removes its cache entry and the factory  *)
(* header it writes lists only derived classes whose files still exist.    *)
DeclaresDerived(m) ==
    \E i \in 1..Len(m.classes) :
        \E k \in 1..Len(StartCache) : \E j \in 1..Len(StartCache[k].classes) :
            /\ StartCache[k].classes[j].is_factory_base
            /\ StartCache[k].classes[j].name = m.classes[i].parent_class

C5_DeletedDerivedDropped ==
    pc = "save" =>
        \A n \in 1..Len(StartCache) :
            (~disk[StartCache[n].path].present /\ DeclaresDerived(StartCache[n]))
            => /\ ~HasEntry(files, StartCache[n].path)
               /\ \A k \in 1..Len(factory_bases) :
                     \A i \in 1..Len(factory_bases[k].derived) :
                         disk[factory_bases[k].derived[i].source_file].present

(* C6: a header that lies under a --scan-dir root only is parsed, and      *)
(* unless the parse raises ingested, in every run in which it is new or    *)
(* its hash differs from the cached hash.                                  *)
C6_ScanDirOutdatedParsed ==
    (pc \in {"prune", "save"} /\ args.scan) =>
        \A f \in Discovered(ScanHeaders) \ Range(source_dirs) :
            Outdated(StartCache, f)
                => parsed[f] > 0 /\ (f \in ingested \/ error_count > 0)

(* C7: load() of a cache file whose version is not CACHE_VERSION returns   *)
(* false, raises nothing and leaves the cache empty, and the run goes on   *)
(* as a run without cache does: every discovered source header is to be    *)
(* processed.                                                              *)
VersionMismatch(cf) == cf.kind = "object" /\ cf.version # CACHE_VERSION

C7_VersionMismatch ==
    [][(pc = "idle" /\ pc' # "idle" /\ last'.outcome # "returned"
           /\ VersionMismatch(cacheFile))
          => /\ ~load(cacheFile).ret
             /\ ~load(cacheFile).raised
             /\ pc' = "parse"
             /\ files' = <<>>
             /\ todo' = scan_headers(source_dirs)]_vars

C7_Witness ==
    /\ pc = "parse" /\ ParsedFiles = {}
    /\ VersionMismatch(cacheFile)
    /\ cacheFile.entries # <<>>
    /\ files = <<>>
    /\ todo # <<>>

(* C8: whatever the cache file holds (absent, no JSON, a top level or a    *)
(* `files` value that is no object, entries of the wrong shape), load()    *)
(* returns false with an empty cache and raises nothing.                   *)
Malformed(cf) ==
    \/ cf.kind \in {"absent", "notjson", "notobject"}
    \/ /\ cf.kind = "object"
       /\ \/ ~cf.filesIsObject
          \/ \E i \in 1..Len(cf.entries) : cf.entries[i].shape # "object"

LoadCalled == pc = "idle" /\ pc' # "idle" /\ last'.outcome # "returned"

C8_LoadNeverRaises ==
    [][(LoadCalled /\ Malformed(cacheFile))
          => /\ load(cacheFile) = [files |-> <<>>, ret |-> FALSE, raised |-> FALSE]
             /\ last'.outcome # "crashed"
             /\ files' = <<>>]_vars

(* C9 as stated: a version-matching cache file with one entry that lacks a *)
(* required field is accepted, and every other entry is loaded.            *)
OneEntryLacksField(cf) ==
    /\ cf.kind = "object" /\ cf.version = CACHE_VERSION /\ cf.filesIsObject
    /\ Cardinality({i \in 1..Len(cf.entries) :
                       cf.entries[i].shape = "missing_field"}) = 1
    /\ \A i \in 1..Len(cf.entries) :
          cf.entries[i].shape \in {"object", "missing_field"}

C9_DropsOnlyBadEntry ==
    [][(LoadCalled /\ OneEntryLacksField(cacheFile))
          => LET good == SelectSeq(cacheFile.entries, LAMBDA e : e.shape = "object")
             IN /\ load(cacheFile).ret
                /\ ~load(cacheFile).raised
                /\ files' = [i \in 1..Len(good) |-> from_dict(good[i])]]_vars

(* C9 amended: a version-matching cache file with one entry that lacks a   *)
(* required field is rejected as a whole: load() returns false, raises     *)
(* nothing and the cache holds no entry, so the run processes every        *)
(* discovered source header.                                               *)
C9_BadEntryDropsAll ==
    /\ OneEntryLacksField(cacheFile) =>
          load(cacheFile) = [files |-> <<>>, ret |-> FALSE, raised |-> FALSE]
    /\ (OneEntryLacksField(cacheFile) /\ pc = "parse" /\ ParsedFiles = {}) =>
          files = <<>> /\ todo = scan_headers(source_dirs)

C9_Witness ==
    /\ pc = "parse" /\ ParsedFiles = {}
    /\ OneEntryLacksField(cacheFile)
    /\ Len(cacheFile.entries) >= 2
    /\ files = <<>>

(* C10: update_file(f, ...) replaces only the entry of f: every other      *)
(* entry (path, content_hash, last_scanned, classes, enums) is the same    *)
(* before and after, and no other key is added or removed.                 *)
C10_UpdateFrame ==
    [][(pc \in {"parse", "scan"} /\ pc' = pc /\ parsed' # parsed)
          => LET f == IF pc = "parse" THEN Head(todo) ELSE Head(scanTodo) IN
             /\ Keys(files) \subseteq Keys(files')
             /\ Keys(files') \subseteq Keys(files) \cup {f}
             /\ \A g \in Keys(files) \ {f} : Entry(files', g) = Entry(files, g)
             /\ ingested' # ingested =>
                   /\ f \in Keys(files')
                   /\ Entry(files', f).last_scanned = runs]_vars

C10_Witness ==
    /\ pc \in {"parse", "scan"}
    /\ \E f \in ingested : \E g \in Keys(files) \ ingested :
          /\ Entry(files, f).last_scanned = runs
          /\ Entry(files, g).last_scanned < runs

(* C11: for every run with libclang that reaches the end of main(), the    *)
(* exit code is 0                                                          *)
(* iff no per-file error occurred in the run: no file that could not be    *)
(* read, no parse that raised, no render that raised.                      *)
PerFileError ==
    \/ error_count > 0
    \/ \E f \in Files : parsed[f] > 0 /\ ~disk[f].readable

C11_ExitCodeIffNoError ==
    [][(pc = "save" /\ pc' = "exit" /\ cpp_parser = "libclang")
          => (last'.code = 0 <=> ~PerFileError)]_vars

(* C12: every file ingested in a run whose metadata is not empty has its   *)
(* <stem>.gen.hpp written by the run, and when no parse raised no error is *)
(* counted; for a file without reflected entities no such file is written. *)
C12_GenFileWritten ==
    (Running /\ cpp_parser = "libclang") =>
        \A f \in ingested :
            IF HasEntities(Entry(files, f))
            THEN /\ f \in generated
                 /\ ParsedFiles = ingested => error_count = 0
            ELSE f \notin generated

(* C13: a file whose parse fails in a run (it cannot be opened, or         *)
(* parse_file raises) keeps the cache entry it had before the run: same    *)
(* classes, enums and content_hash.                                        *)
C13_FailedParseKeepsEntry ==
    (Running /\ cpp_parser = "libclang") =>
        \A f \in ParsedFiles :
            ((~disk[f].readable \/ f \notin ingested) /\ HasEntry(StartCache, f))
                => /\ HasEntry(files, f)
                   /\ Entry(files, f).classes = Entry(StartCache, f).classes
                   /\ Entry(files, f).enums = Entry(StartCache, f).enums
                   /\ Entry(files, f).content_hash = Entry(StartCache, f).content_hash

(* C14: the cache file is written by the save step only: every other step  *)
(* of a run leaves the file as it was, and a run that ends before save,    *)
(* at the parser bootstrap, at load() or interrupted later, leaves the     *)
(* list of source headers a next run finds outdated as it was.             *)
OutdatedAfter(cf) ==
    LET l == load(cf) IN
    IF l.raised THEN <<>> ELSE get_outdated_files(l.files, source_dirs)

EndsBeforeSave ==
    \/ pc = "idle" /\ pc' = "exit"
    \/ pc \in {"parse", "scan", "prune", "save"} /\ pc' = "idle"

C14_CacheWrittenOnlyBySave ==
    [][/\ (~(pc = "idle" /\ pc' = "idle") /\ ~(pc = "save" /\ pc' = "exit"))
             => cacheFile' = cacheFile
       /\ EndsBeforeSave =>
             /\ disk' = disk
             /\ OutdatedAfter(cacheFile') = OutdatedAfter(cacheFile)]_vars

C14_Witness ==
    /\ pc = "idle"
    /\ last.outcome = "interrupted"
    /\ cacheFile.kind = "object"
    /\ cacheFile.entries # <<>>
    /\ OutdatedAfter(cacheFile) # <<>>

(* C15: a header that cannot be opened has the empty hash and is reported  *)
(* outdated at the start of the next run, also when its entry was ingested *)
(* while it could not be opened.                                           *)
C15_UnreadableIsOutdated ==
    (pc = "parse" /\ ParsedFiles = {} /\ ~args.force) =>
        \A f \in Discovered(source_dirs) :
            ~disk[f].readable =>
                /\ get_file_hash(f) = EmptyHash
                /\ is_file_changed(files, f)
                /\ f \in Range(todo)

(* C16: with --force every header the run discovers, under the source      *)
(* roots and under the scan roots, is parsed in that run.                  *)
C16_ForceParsesAll ==
    (pc \in {"prune", "save"} /\ args.force) =>
        \A f \in Discovered(source_dirs \o scan_dirs(args)) : parsed[f] > 0

(* C17: the prune step removes exactly the entries whose path is not among *)
(* the headers present under the input roots of the run, leaves every      *)
(* other entry and their order as they were, and reports the number of     *)
(* entries it removed.                                                     *)
C17_PruneExact ==
    [][(pc = "prune" /\ pc' = "save")
          => LET present == Discovered(source_dirs \o scan_dirs(args)) IN
             /\ Keys(files') = Keys(files) \cap present
             /\ \A g \in Keys(files') : Entry(files', g) = Entry(files, g)
             /\ \A i, j \in 1..Len(files') :
                   i < j => \E m, n \in 1..Len(files) :
                               m < n /\ files[m] = files'[i] /\ files[n] = files'[j]
             /\ removed' = Keys(files) \ present
             /\ Cardinality(removed') = Len(files) - Len(files')]_vars

C17_Witness ==
    /\ pc = "save"
    /\ removed # {}
    /\ files # <<>>
    /\ \A g \in Keys(files) : disk[g].present

----------------------------------------------------------------------------
(* C18: when the AST library is missing or cannot be used, the run parses  *)
(* no file, renders nothing, leaves the cache file alone and ends with a   *)
(* non-zero exit code.                                                     *)
C18_MissingCapabilityIsFatal ==
    libclang # "usable" =>
        /\ ParsedFiles = {}
        /\ factory_bases = <<>>
        /\ pc # "save"
        /\ pc = "exit" => last.code # 0

(* C19: the resolver returns one family for each cached factory base that  *)
(* has a derived class and none for a base without; the derived list of a  *)
(* family holds, once each, the cached classes whose parent_class is the   *)
(* simple name of the base, whichever run parsed them.                     *)
C19_FamiliesExact ==
    pc = "prune" =>
        LET cls == get_all_classes(files)
            DerivedOf(n) == {j \in 1..Len(cls) : cls[j].parent_class = n}
            Bases == {i \in 1..Len(cls) :
                         cls[i].is_factory_base /\ DerivedOf(cls[i].name) # {}}
        IN /\ Len(factory_bases) = Cardinality(Bases)
           /\ \A i \in Bases :
                 \E k \in 1..Len(factory_bases) :
                    factory_bases[k].full_qualified_name = cls[i].full_qualified_name
           /\ \A k \in 1..Len(factory_bases) :
                 LET fb == factory_bases[k] IN
                 /\ \E i \in Bases :
                       cls[i].full_qualified_name = fb.full_qualified_name
                 /\ Len(fb.derived) = Cardinality(DerivedOf(fb.name))
                 /\ \A j \in DerivedOf(fb.name) :
                       \E d \in 1..Len(fb.derived) :
                          /\ fb.derived[d].full_name = cls[j].full_qualified_name
                          /\ fb.derived[d].source_file = cls[j].source_file

C19_Witness ==
    /\ pc = "prune"
    /\ factory_bases # <<>>
    /\ \E i \in 1..Len(get_all_classes(files)) :
          LET c == get_all_classes(files)[i] IN
          /\ c.is_factory_base
          /\ \A k \in 1..Len(factory_bases) : factory_bases[k].name # c.name
    /\ \E k \in 1..Len(factory_bases) :
          \E d \in 1..Len(factory_bases[k].derived) :
             parsed[factory_bases[k].derived[d].source_file] = 0

----------------------------------------------------------------------------
(* Vocabulary of the resolver's properties *)

CachedClasses == get_all_classes(files)

(* no two cached classes have the same full_qualified_name *)
UniqueFullNames ==
    \A i, j \in 1..Len(CachedClasses) :
        CachedClasses[i].full_qualified_name = CachedClasses[j].full_qualified_name
        => i = j

FullNames == {CachedClasses[i].full_qualified_name : i \in 1..Len(CachedClasses)}

(* the places of the class named q in the derived list of family fb *)
PlacesIn(fb, q) == {d \in 1..Len(fb.derived) : fb.derived[d].full_name = q}

(* the families whose derived list holds the class named q *)
FamiliesOf(q) ==
    {k \in 1..Len(factory_bases) : PlacesIn(factory_bases[k], q) # {}}

(* the families whose root is the class named q *)
RootedAt(q) ==
    {k \in 1..Len(factory_bases) : factory_bases[k].full_qualified_name = q}

(* C21: in the resolver's output every class is in the derived list of at  *)
(* most one family, also when two factory bases in different namespaces    *)
(* have the same simple name.  Stated for caches without duplicate         *)
(* full_qualified_names, which are C22's subject.                          *)
C21_OneFamilyPerClass ==
    (pc = "prune" /\ UniqueFullNames) =>
        \A q \in FullNames : Cardinality(FamiliesOf(q)) <= 1

(* C22: when two cached files hold a class with the same                   *)
(* full_qualified_name, one of them takes effect: the class is at most     *)
(* once in any family's derived list and at most once a family root.       *)
C22_DuplicateTakenOnce ==
    (pc = "prune" /\ ~UniqueFullNames) =>
        \A q \in FullNames :
            /\ Cardinality(RootedAt(q)) <= 1
            /\ \A k \in 1..Len(factory_bases) :
                   Cardinality(PlacesIn(factory_bases[k], q)) <= 1

----------------------------------------------------------------------------
(* C23: for every derived name D and base name B, compute_short_name(D, B) *)
(* is non-empty and is D without the longest common suffix s of D and      *)
(* B-without-its-leading-I when s is non-empty and shorter than D, and is  *)
(* D otherwise; the leading I is taken off every B that starts with I.     *)
(* As stated it fails for the base name "I"; it holds when the leading I   *)
(* is taken off the base names longer than one character only.             *)

(* the longest common suffix of two names, as the largest length at which  *)
(* their suffixes agree                                                    *)
LongestCommonSuffix(a, b) ==
    LET ks == {k \in 0..Min(Len(a), Len(b)) : Suffix(a, k) = Suffix(b, k)}
    IN Suffix(a, CHOOSE k \in ks : \A j \in ks : j <= k)

WithoutCommonSuffix(D, Bs) ==
    LET s == LongestCommonSuffix(D, Bs)
    IN IF s # "" /\ Len(s) < Len(D) THEN DropSuffix(D, Len(s)) ELSE D

StripAnyLeadingI(B) == IF startswith(B, "I") THEN SubSeq(B, 2, Len(B)) ELSE B

StripLeadingIOfLonger(B) ==
    IF startswith(B, "I") /\ Len(B) > 1 THEN SubSeq(B, 2, Len(B)) ELSE B

C23_ShortNameRule ==
    short_name # "?" =>
        /\ short_name # ""
        /\ short_name = WithoutCommonSuffix(class_name, StripAnyLeadingI(base_name))

C23_ShortNameRuleLongerBase ==
    short_name # "?" =>
        /\ short_name # ""
        /\ short_name = WithoutCommonSuffix(class_name,
                                            StripLeadingIOfLonger(base_name))

(* a call on the base name "I" that removed the common suffix "I" *)
C23_Witness ==
    /\ short_name # "?"
    /\ base_name = "I"
    /\ short_name # class_name

----------------------------------------------------------------------------
(* C24: the order of the derived classes of a family is a function of the  *)
(* cached classes alone: the same cache entries, whatever the order in     *)
(* which the runs inserted them, give the same families in the same order  *)
(* and so the same factory header.                                         *)
Orders(n) == {p \in [1..n -> 1..n] : \A i, j \in 1..n : p[i] = p[j] => i = j}

(* the caches that hold the entries of fs, inserted in another order *)
Reorderings(fs) ==
    {[i \in 1..Len(fs) |-> fs[p[i]]] : p \in Orders(Len(fs))}

C24_OrderFromCacheAlone ==
    (pc = "prune" /\ UniqueFullNames) =>
        \A gs \in Reorderings(files) :
            LET others == build_factory_bases(get_all_classes(gs)) IN
            \A k \in 1..Len(factory_bases) : \A m \in 1..Len(others) :
                others[m].full_qualified_name = factory_bases[k].full_qualified_name
                => others[m].derived = factory_bases[k].derived

----------------------------------------------------------------------------
(* C25: within one run every discovered header is parsed at most once and  *)
(* adds at most one to error_count, also when no --scan-dir is given, so   *)
(* that the second loop walks the source roots again, and the parse of the *)
(* header raised in the first loop.                                        *)
C25_ParsedOnce ==
    cpp_parser = "libclang" =>
        /\ \A f \in Files : parsed[f] <= 1
        /\ error_count <= Cardinality({f \in Files : parsed[f] > 0})

----------------------------------------------------------------------------
(* C26: within every family the resolver produces, the short names of the  *)
(* derived classes are pairwise distinct.  Stated for caches without       *)
(* duplicate full_qualified_names and for derived classes whose simple     *)
(* names differ.                                                           *)
C26_ShortNamesDistinct ==
    (pc = "prune" /\ UniqueFullNames) =>
        \A k \in 1..Len(factory_bases) :
            \A i, j \in 1..Len(factory_bases[k].derived) :
                factory_bases[k].derived[i].short_name
                    = factory_bases[k].derived[j].short_name
                => factory_bases[k].derived[i].name = factory_bases[k].derived[j].name

----------------------------------------------------------------------------
(* Vocabulary of the launcher's properties *)

(* the actions executed for configuration c, in the order they ended *)
RunOf(c) == SelectSeq(steps_run, LAMBDA e : e.config = c)

Succeeded(run) == \A k \in 1..Len(run) : run[k].success

(* the PipelineResult r describes the pipeline run of configuration c *)
ResultAgrees(r, c) ==
    LET run == RunOf(c) IN
    /\ r.total_steps = Len(pipeline)
    /\ \A k \in 1..Len(run) : run[k].step = k - 1
    /\ \A k \in 1..(Len(run) - 1) : run[k].success
    /\ r.results = [k \in 1..Len(run) |-> run[k].success]
    /\ (run # <<>> /\ ~run[Len(run)].success) =>
           (~r.success /\ r.steps_completed = run[Len(run)].step)
    /\ (Len(run) = Len(pipeline) /\ Succeeded(run)) =>
           (r.success /\ r.steps_completed = r.total_steps)

(* C27: PipelineExecutor.execute runs the steps in order and stops at the  *)
(* first step whose result is unsuccessful: no later step is executed, the *)
(* result has success = false, steps_completed = the index of the failed   *)
(* step and one results entry per executed step; when every step succeeds, *)
(* success = true and steps_completed = total_steps.  Checked for the      *)
(* single run and for the run of every configuration.                      *)
C27_StopsAtFirstFailure ==
    /\ (worker = "single" /\ wpc = "returned") => ResultAgrees(result, 0)
    /\ \A k \in 1..Len(config_results) :
          ResultAgrees(config_results[k].pipeline_result,
                       config_results[k].config_name)

(* a single run of two steps has returned after its second step failed *)
C27_Witness ==
    /\ worker = "single"
    /\ wpc = "returned"
    /\ ~result.success
    /\ result.steps_completed = 1
    /\ result.results = <<TRUE, FALSE>>
    /\ Len(pipeline) > 1

(* C28: when cancel() is called on the PipelineExecutor at any moment      *)
(* after the worker thread has been started, no step is started after the  *)
(* call has returned (so that execute returns success = false whenever a   *)
(* step was still to be started).                                          *)
C28_NoStepAfterCancel ==
    worker = "single" => ~started_after.first

(* C29: during a multi-configuration execution, once _cancel_pipeline has  *)
(* called cancel() on both executors, no step is started any more, in the  *)
(* configuration being run or in a later one.                              *)
C29_NoStepAfterCancelMulti ==
    worker = "multi" => ~started_after.during

(* C30: absent cancellation MultiConfigPipelineExecutor.execute runs the   *)
(* pipeline once for every enabled configuration, in list order, and for   *)
(* no disabled one, whether or not an earlier configuration failed;        *)
(* configs_completed = total_configs = the number of enabled               *)
(* configurations; success = true exactly when the pipeline of every       *)
(* configuration succeeded; with no enabled configuration it returns       *)
(* success = false and has run nothing.                                    *)
EnabledNames == {k \in 1..Len(configurations) : configurations[k].enabled}

C30_RunsEveryEnabledConfig ==
    (worker = "multi" /\ wpc = "mreturned" /\ ~cancel_returned.first) =>
        /\ {configs_run[k] : k \in 1..Len(configs_run)} = EnabledNames
        /\ \A k \in 1..(Len(configs_run) - 1) : configs_run[k] < configs_run[k + 1]
        /\ \A c \in EnabledNames : RunOf(c) # <<>>
        /\ \A k \in 1..Len(steps_run) : steps_run[k].config \in EnabledNames
        /\ multi_result.configs_completed = Cardinality(EnabledNames)
        /\ multi_result.total_configs = Cardinality(EnabledNames)
        /\ multi_result.success =
              /\ EnabledNames # {}
              /\ \A c \in EnabledNames :
                    Len(RunOf(c)) = Len(pipeline) /\ Succeeded(RunOf(c))

(* two enabled configurations: the pipeline of the first has failed and    *)
(* the pipeline of the second has run and succeeded                        *)
C30_Witness ==
    /\ worker = "multi"
    /\ wpc = "mreturned"
    /\ ~cancel_returned.first
    /\ multi_result.configs_completed = 2
    /\ ~multi_result.results[1].pipeline_result.success
    /\ multi_result.results[2].pipeline_result.success
    /\ ~multi_result.success

====
